---- MODULE Spec2Model ----
(***************************************************************************)
(* Model of Arks/DistanceEst.h: the sample builder (calcDistSamples), the  *)
(* calibration index builder (buildJaccardToDist), the eligibility         *)
(* predicate (validBarcodeMapping), the pair statistics builder            *)
(* (calcContigPairBarcodeStats) and the distance estimator                 *)
(* (estimateDistance).                                                     *)
(*                                                                         *)
(* Contig identifiers are std::string in the source and are only compared  *)
(* (==, >); they are modelled by integers carrying the same order.         *)
(* A Jaccard score is a double obtained by one division of two small       *)
(* integers; it is modelled by the reduced fraction <<num, den>>, which is *)
(* equal for two divisions exactly when the doubles are equal.             *)
(***************************************************************************)
EXTENDS Integers, Sequences, FiniteSets, TLC

(* ------------------------------ bounds -------------------------------- *)

\* at most this many (barcode, contig end) observations in the whole input
MaxObs == 3
\* counts of a caller-made PairRecord range over 0..MaxCount
MaxCount == 2

\* std::numeric_limits<unsigned>::max(), written as its bit pattern (unsigned)-1
UINT_MAX == -1

Barcodes == {"BX1", "BX2"}
\* read-pair counts of an observation: below min_reads, and min_reads
ReadCounts == {1, 2}
\* barcode multiplicities: each inside, below or above min_mult..max_mult
Multiplicities == {1, 2}
Contigs == {1, 2}
\* ARCS::CI: (contig id, isHead)
CI == Contigs \X BOOLEAN
\* contig lengths of the input: shorter than 2*end_length, and 2*end_length
Lengths == {1, 2}

\* ARCS::PairOrientation
HH == 0
HT == 1
TH == 2
TT == 3
NUM_ORIENTATIONS == 4

(* ------------------------------ helpers ------------------------------- *)

\* every visiting order of the elements of a container holding the set S
Orders(S) ==
    {s \in [1..Cardinality(S) -> S] : \A x \in S : \E i \in DOMAIN s : s[i] = x}

\* std::map / std::unordered_map as a function; m[k] = v added or replaced
Put(m, k, v) == [x \in DOMAIN m \cup {k} |-> IF x = k THEN v ELSE m[x]]

EmptyMap == [x \in {} |-> 0]

RECURSIVE GCD(_, _)
GCD(a, b) == IF b = 0 THEN a ELSE GCD(b, a % b)

\* double(i) / u. u = 0 gives NaN (0/0) or +inf (i/0), kept as <<0,0>>, <<1,0>>
Jaccard(i, u) ==
    IF u = 0 THEN (IF i = 0 THEN <<0, 0>> ELSE <<1, 0>>)
    ELSE <<i \div GCD(i, u), u \div GCD(i, u)>>

\* jaccard >= 0.0 && jaccard <= 1.0; false for NaN and +inf
FracInUnit(a) == a[2] > 0 /\ 0 <= a[1] /\ a[1] <= a[2]

(* ------------------------------- state -------------------------------- *)

VARIABLES
    imap,            \* ARCS::IndexMap: barcode -> (CI -> read pairs)
    indexMultMap,    \* barcode -> multiplicity
    contigToLength,  \* contig -> length
    params,          \* ARCS::ArcsParams
    distSamples,     \* DistSampleMap filled by the last calcDistSamples
    prevDistSamples, \* the DistSampleMap of the run before that one
    sampleRuns,      \* number of calcDistSamples runs, capped at 2
    jaccardToDist,   \* JaccardToDist filled by buildJaccardToDist
    indexBuilt,      \* buildJaccardToDist has run
    pmap,            \* ARCS::PairMap after the last calcContigPairBarcodeStats
    contigEndToBarcodeCount, \* its side table, as left by the scan
    pairStatus,      \* "none", "done", "out_of_range" (.at threw), "assert"
    prevPairs,       \* pmap and pairStatus of the run before that one
    pairRuns,        \* number of calcContigPairBarcodeStats runs, capped at 2
    est              \* the last estimateDistance call: arguments and result

inputs == <<imap, indexMultMap, contigToLength, params>>
sampleVars == <<distSamples, prevDistSamples, sampleRuns>>
indexVars == <<jaccardToDist, indexBuilt>>
pairVars == <<pmap, contigEndToBarcodeCount, pairStatus, prevPairs, pairRuns>>
vars == <<inputs, sampleVars, indexVars, pairVars, est>>

(* --------------------------- calcDistSamples -------------------------- *)

\* DistSample() default constructor
DistSample0 ==
    [distance |-> UINT_MAX, barcodesHead |-> 0, barcodesTail |-> 0,
     barcodesUnion |-> 0, barcodesIntersect |-> 0]

\* skip barcodes outside of min/max multiplicity range
MultSkipped(indexMult, p) == indexMult < p.min_mult \/ indexMult > p.max_mult

\* does the barcode also map to the other end with enough read pairs
FoundOtherNoMinReads(contigToCount, contigID, isHead, p) ==
    <<contigID, ~isHead>> \in DOMAIN contigToCount

FoundOther(contigToCount, contigID, isHead, p) ==
    /\ <<contigID, ~isHead>> \in DOMAIN contigToCount
    /\ contigToCount[<<contigID, ~isHead>>] >= p.min_reads

\* the isHead part prevents double-counting a barcode mapped to both ends
CountsBothAtEitherEnd(foundOther, isHead) == foundOther

CountsBoth(foundOther, isHead) == foundOther /\ isHead

\* body of the inner loop for one (contig end -> read pairs) entry
SampleStep(ds, contigToCount, ci, lens, p) ==
    LET contigID == ci[1]
        isHead == ci[2]
        readPairs == contigToCount[ci]
        l == lens[contigID]
    IN  IF readPairs < p.min_reads THEN ds
        ELSE IF l < 2 * p.end_length THEN ds
        ELSE
          LET s0 == IF contigID \in DOMAIN ds THEN ds[contigID] ELSE DistSample0
              s1 == [s0 EXCEPT !.distance = l - 2 * p.end_length]
              s2 == IF isHead
                    THEN [s1 EXCEPT !.barcodesHead = @ + 1]
                    ELSE [s1 EXCEPT !.barcodesTail = @ + 1]
              foundOther == FoundOther(contigToCount, contigID, isHead, p)
              s3 == IF CountsBoth(foundOther, isHead)
                    THEN [s2 EXCEPT !.barcodesIntersect = @ + 1,
                                    !.barcodesUnion = @ + 1]
                    ELSE IF ~foundOther
                    THEN [s2 EXCEPT !.barcodesUnion = @ + 1]
                    ELSE s2
          IN  Put(ds, contigID, s3)

RECURSIVE SampleInner(_, _, _, _, _, _)
SampleInner(ds, contigToCount, obsOrder, k, lens, p) ==
    IF k > Len(obsOrder) THEN ds
    ELSE SampleInner(SampleStep(ds, contigToCount, obsOrder[k], lens, p),
                     contigToCount, obsOrder, k + 1, lens, p)

\* bcOrder: visiting order of imap; obsOrder[b]: visiting order of imap[b]
RECURSIVE calcDistSamples(_, _, _, _, _, _, _, _)
calcDistSamples(im, lens, mult, p, ds, bcOrder, obsOrder, j) ==
    IF j > Len(bcOrder) THEN ds
    ELSE LET index == bcOrder[j]
             next == IF MultSkipped(mult[index], p) THEN ds
                     ELSE SampleInner(ds, im[index], obsOrder[index], 1, lens, p)
         IN  calcDistSamples(im, lens, mult, p, next, bcOrder, obsOrder, j + 1)

\* the visiting orders of an IndexMap
BarcodeOrders(im) == Orders(DOMAIN im)
ObsOrders(im) ==
    {o \in [DOMAIN im -> UNION {Orders(DOMAIN im[b]) : b \in DOMAIN im}] :
        \A b \in DOMAIN im : o[b] \in Orders(DOMAIN im[b])}

(* -------------------------- buildJaccardToDist ------------------------ *)

\* a < b on doubles: false when either is NaN (<<0,0>>); +inf is <<1,0>>
DoubleLess(a, b) ==
    IF a = <<0, 0>> \/ b = <<0, 0>> THEN FALSE
    ELSE IF a[2] = 0 THEN FALSE
    ELSE IF b[2] = 0 THEN TRUE
    ELSE a[1] * b[2] < b[1] * a[2]

\* equivalence of two keys under std::less<double>: NaN is equivalent to
\* every key
KeyEquivalent(a, b) == ~DoubleLess(a, b) /\ ~DoubleLess(b, a)

\* std::map<double, DistSample>::insert: no effect when the map holds a key
\* equivalent to k. A map filled by insert alone holds NaN only as its single
\* key, so the outcome does not depend on the shape of the tree
MapInsert(m, k, v) ==
    IF \E x \in DOMAIN m : KeyEquivalent(x, k) THEN m ELSE Put(m, k, v)

\* order: visiting order of the DistSampleMap
RECURSIVE buildJaccardToDist(_, _, _, _)
buildJaccardToDist(ds, j2d, order, k) ==
    IF k > Len(order) THEN j2d
    ELSE LET sample == ds[order[k]]
             jaccard == Jaccard(sample.barcodesIntersect, sample.barcodesUnion)
         IN  buildJaccardToDist(ds, MapInsert(j2d, jaccard, sample), order, k + 1)

(* --------------------------- validBarcodeMapping ---------------------- *)

validBarcodeMappingAnyLength(contigLength, pairs, p) ==
    ~(pairs < p.min_reads)

validBarcodeMapping(contigLength, pairs, p) ==
    IF pairs < p.min_reads THEN FALSE
    ELSE IF contigLength < 2 * p.end_length THEN FALSE
    ELSE TRUE

(* ---------------------- calcContigPairBarcodeStats -------------------- *)

\* ARCS::PairRecord() default constructor
PairRecord0 ==
    [barcodesIntersect |-> 0, barcodes1 |-> 0, barcodes2 |-> 0,
     barcodesUnion |-> 0]

\* pmap[pair].fill(ARCS::PairRecord())
PairRecords0 == [i \in 0..(NUM_ORIENTATIONS - 1) |-> PairRecord0]

\* avoid double-counting contig end pairs
SkipPair(id1, id2) == id1 > id2

\* the orientation variant incremented for (head1, head2)
OrientationSwapped(head1, head2) ==
    IF head1 /\ head2 THEN HH
    ELSE IF head1 /\ ~head2 THEN TH
    ELSE IF ~head1 /\ head2 THEN HT
    ELSE TT

Orientation(head1, head2) ==
    IF head1 /\ head2 THEN HH
    ELSE IF head1 /\ ~head2 THEN HT
    ELSE IF ~head1 /\ head2 THEN TH
    ELSE TT

\* first position of the inner loop: contigEndToPairCount.begin()
InnerBegin(k1) == 1

\* body of the inner loop for (endIt1, endIt2)
PairStep(pm, scaf, ci1, ci2, lens, p) ==
    IF ~validBarcodeMapping(lens[ci2[1]], scaf[ci2], p) THEN pm
    ELSE IF SkipPair(ci1[1], ci2[1]) THEN pm
    ELSE LET pair == <<ci1[1], ci2[1]>>
             recs == IF pair \in DOMAIN pm THEN pm[pair] ELSE PairRecords0
             i == Orientation(ci1[2], ci2[2])
         IN  Put(pm, pair,
                 [recs EXCEPT ![i].barcodesIntersect = @ + 1])

RECURSIVE PairInner(_, _, _, _, _, _, _)
PairInner(pm, scaf, ci1, obsOrder, k2, lens, p) ==
    IF k2 > Len(obsOrder) THEN pm
    ELSE PairInner(PairStep(pm, scaf, ci1, obsOrder[k2], lens, p),
                   scaf, ci1, obsOrder, k2 + 1, lens, p)

\* acc = [pmap, count]: the pair map and the side table
RECURSIVE PairOuter(_, _, _, _, _, _)
PairOuter(acc, scaf, obsOrder, k1, lens, p) ==
    IF k1 > Len(obsOrder) THEN acc
    ELSE LET ci1 == obsOrder[k1]
             next ==
               IF ~validBarcodeMapping(lens[ci1[1]], scaf[ci1], p) THEN acc
               ELSE [pmap |-> PairInner(acc.pmap, scaf, ci1, obsOrder,
                                        InnerBegin(k1), lens, p),
                     count |-> Put(acc.count, ci1,
                                   IF ci1 \in DOMAIN acc.count
                                   THEN acc.count[ci1] + 1 ELSE 1)]
         IN  PairOuter(next, scaf, obsOrder, k1 + 1, lens, p)

RECURSIVE PairScan(_, _, _, _, _, _, _, _)
PairScan(im, mult, lens, p, acc, bcOrder, obsOrder, j) ==
    IF j > Len(bcOrder) THEN acc
    ELSE LET index == bcOrder[j]
             next == IF MultSkipped(mult[index], p) THEN acc
                     ELSE PairOuter(acc, im[index], obsOrder[index], 1, lens, p)
         IN  PairScan(im, mult, lens, p, next, bcOrder, obsOrder, j + 1)

\* the two contig ends of orientation variant i of a pair
Tail1(pair, i) == <<pair[1], i = HH \/ i = HT>>
Tail2(pair, i) == <<pair[2], i = HH \/ i = TH>>

\* one iteration of the fill loop; st = [pmap, status], status "done" while
\* the loop goes on
FillRec(st, cnt, pair, i) ==
    LET rec == st.pmap[pair][i]
        tail1 == Tail1(pair, i)
        tail2 == Tail2(pair, i)
        set(r, status) ==
            [pmap |-> [st.pmap EXCEPT ![pair][i] = r], status |-> status]
    IN  IF tail1 \notin DOMAIN cnt THEN set(rec, "out_of_range")
        ELSE LET r1 == [rec EXCEPT !.barcodes1 = cnt[tail1]]
             IN  IF ~(r1.barcodes1 > 0) THEN set(r1, "assert")
                 ELSE IF tail2 \notin DOMAIN cnt THEN set(r1, "out_of_range")
                 ELSE LET r2 == [r1 EXCEPT !.barcodes2 = cnt[tail2]]
                      IN  IF ~(r2.barcodes2 > 0) THEN set(r2, "assert")
                          ELSE IF ~(r2.barcodes1 + r2.barcodes2
                                      >= r2.barcodesIntersect)
                          THEN set(r2, "assert")
                          ELSE set([r2 EXCEPT !.barcodesUnion =
                                       r2.barcodes1 + r2.barcodes2
                                         - r2.barcodesIntersect], "done")

\* the fill loops: pairs in fillOrder, variants HH..TT; stops at the first throw
RECURSIVE PairFill(_, _, _, _, _)
PairFill(st, cnt, fillOrder, k, i) ==
    IF st.status # "done" \/ k > Len(fillOrder) THEN st
    ELSE IF i >= NUM_ORIENTATIONS THEN PairFill(st, cnt, fillOrder, k + 1, HH)
    ELSE PairFill(FillRec(st, cnt, fillOrder[k], i), cnt, fillOrder, k, i + 1)

(* --------------------------- estimateDistance ------------------------- *)

\* DistanceEstimate() default constructor
DistanceEstimate0 == [minDist |-> 0, maxDist |-> 0, jaccard |-> <<0, 1>>]

\* closestKeys(map, key, bin): the keys k with key - bin <= k <= key + bin
closestKeys(j2d, key, bin) ==
    {k \in DOMAIN j2d :
        /\ k[2] > 0
        /\ (k[1] * key[2] - key[1] * k[2]) * bin[2] <= bin[1] * k[2] * key[2]
        /\ (key[1] * k[2] - k[1] * key[2]) * bin[2] <= bin[1] * k[2] * key[2]}

\* the distances of the samples under the keys, after std::sort
RECURSIVE SortedDistances(_, _)
SortedDistances(j2d, keys) ==
    IF keys = {} THEN <<>>
    ELSE LET k == CHOOSE x \in keys :
                    \A y \in keys : j2d[x].distance <= j2d[y].distance
         IN  <<j2d[k].distance>> \o SortedDistances(j2d, keys \ {k})

\* 100 * quantile(sorted, pct / 100) by linear interpolation between the two
\* bracketing order statistics; sorted is not empty
Quantile100(sorted, pct) ==
    LET h == (Len(sorted) - 1) * pct
        lo == (h \div 100) + 1
        frac == h % 100
        hi == IF lo < Len(sorted) THEN lo + 1 ELSE lo
    IN  100 * sorted[lo] + frac * (sorted[hi] - sorted[lo])

Floor100(x) == x \div 100
Ceil100(x) == -((-x) \div 100)

\* what a call leaves: its arguments, the estimate, the success flag, how it
\* ended ("returned", or "assert" for a failed assertion) and the number of
\* samples in the window (-1 when the range query was not reached)
EstOutcome(status, rec, j2d, res, ok, window) ==
    [status |-> status, rec |-> rec, index |-> j2d, result |-> res,
     success |-> ok, window |-> window]

\* from the Jaccard score on; undef1, undef2: what quantile() yields for an
\* empty range
EstimateFromScore(rec, j2d, p, undef1, undef2) ==
    LET jaccard == Jaccard(rec.barcodesIntersect, rec.barcodesUnion)
        r1 == [DistanceEstimate0 EXCEPT !.jaccard = jaccard]
    IN  IF ~FracInUnit(jaccard)
        THEN EstOutcome("assert", rec, j2d, r1, FALSE, -1)
        ELSE
          LET keys == closestKeys(j2d, jaccard, p.dist_bin_size)
              distances == SortedDistances(j2d, keys)
          IN  IF keys = {}
              THEN EstOutcome("returned", rec, j2d,
                       [r1 EXCEPT !.minDist = undef1, !.maxDist = undef2],
                       TRUE, 0)
              ELSE EstOutcome("returned", rec, j2d,
                       [r1 EXCEPT
                          !.minDist = Floor100(Quantile100(distances, 1)),
                          !.maxDist = Ceil100(Quantile100(distances, 99))],
                       TRUE, Len(distances))

estimateDistanceNoUnionCheck(rec, j2d, p, undef1, undef2) ==
    IF DOMAIN j2d = {}
    THEN EstOutcome("returned", rec, j2d, DistanceEstimate0, FALSE, -1)
    ELSE EstimateFromScore(rec, j2d, p, undef1, undef2)

estimateDistance(rec, j2d, p, undef1, undef2) ==
    IF DOMAIN j2d = {}
    THEN EstOutcome("returned", rec, j2d, DistanceEstimate0, FALSE, -1)
    ELSE IF rec.barcodesUnion = 0
    THEN EstOutcome("returned", rec, j2d, DistanceEstimate0, FALSE, -1)
    ELSE EstimateFromScore(rec, j2d, p, undef1, undef2)

(* ------------------------------ inputs -------------------------------- *)

ScafMaps == UNION {[S -> ReadCounts] : S \in SUBSET CI}

NumObs(im) ==
    Cardinality({<<b, ci>> \in Barcodes \X CI : ci \in DOMAIN im[b]})

IndexMaps == {im \in [Barcodes -> ScafMaps] : NumObs(im) <= MaxObs}

\* the thresholds: either multiplicity is the whole range min_mult..max_mult
ParamChoices ==
    {[min_mult |-> m, max_mult |-> m, min_reads |-> 2, end_length |-> 1,
      dist_bin_size |-> <<1, 4>>] : m \in Multiplicities}

\* the records estimateDistance is called on: the stored variants, a
\* default-constructed record, and records of a caller's own making
StoredRecords(pm) ==
    {pm[pair][i] : pair \in DOMAIN pm, i \in 0..(NUM_ORIENTATIONS - 1)}
OtherRecords ==
    {[PairRecord0 EXCEPT !.barcodesIntersect = i, !.barcodesUnion = u] :
        i \in 0..MaxCount, u \in 0..MaxCount}

\* values a quantile over an empty range may come out as
UndefinedValues == {-1, 0}

Init ==
    /\ imap \in IndexMaps
    /\ indexMultMap \in [Barcodes -> Multiplicities]
    /\ contigToLength \in [Contigs -> Lengths]
    /\ params \in ParamChoices
    /\ distSamples = EmptyMap
    /\ prevDistSamples = EmptyMap
    /\ sampleRuns = 0
    /\ jaccardToDist = EmptyMap
    /\ indexBuilt = FALSE
    /\ pmap = EmptyMap
    /\ contigEndToBarcodeCount = EmptyMap
    /\ pairStatus = "none"
    /\ prevPairs = [pmap |-> EmptyMap, status |-> "none"]
    /\ pairRuns = 0
    /\ est = [status |-> "none"]

\* one run of calcDistSamples on a default-constructed DistSampleMap
RunCalcDistSamples ==
    /\ \E bcOrder \in BarcodeOrders(imap), obsOrder \in ObsOrders(imap) :
          distSamples' = calcDistSamples(imap, contigToLength, indexMultMap,
                             params, EmptyMap, bcOrder, obsOrder, 1)
    /\ prevDistSamples' = distSamples
    /\ sampleRuns' = IF sampleRuns < 2 THEN sampleRuns + 1 ELSE 2
    /\ UNCHANGED <<inputs, indexVars, pairVars, est>>

\* one run of calcContigPairBarcodeStats on a default-constructed PairMap:
\* the scan, then the fill
RunCalcContigPairBarcodeStats ==
    /\ \E bcOrder \in BarcodeOrders(imap), obsOrder \in ObsOrders(imap) :
         LET scan == PairScan(imap, indexMultMap, contigToLength, params,
                              [pmap |-> EmptyMap, count |-> EmptyMap],
                              bcOrder, obsOrder, 1)
         IN  \E fillOrder \in Orders(DOMAIN scan.pmap) :
               LET fill == PairFill([pmap |-> scan.pmap, status |-> "done"],
                                    scan.count, fillOrder, 1, HH)
               IN  /\ pmap' = fill.pmap
                   /\ contigEndToBarcodeCount' = scan.count
                   /\ pairStatus' = fill.status
    /\ prevPairs' = [pmap |-> pmap, status |-> pairStatus]
    /\ pairRuns' = IF pairRuns < 2 THEN pairRuns + 1 ELSE 2
    /\ UNCHANGED <<inputs, sampleVars, indexVars, est>>

(* The pipeline: samples, optionally the index, pair statistics, estimates *)

CalcDistSamples ==
    /\ sampleRuns = 0
    /\ RunCalcDistSamples

BuildJaccardToDist ==
    /\ sampleRuns >= 1 /\ ~indexBuilt /\ pairRuns = 0
    /\ \E order \in Orders(DOMAIN distSamples) :
          jaccardToDist' = buildJaccardToDist(distSamples, EmptyMap, order, 1)
    /\ indexBuilt' = TRUE
    /\ UNCHANGED <<inputs, sampleVars, pairVars, est>>

CalcContigPairBarcodeStats ==
    /\ sampleRuns >= 1 /\ pairRuns = 0
    /\ RunCalcContigPairBarcodeStats

\* estimateDistance is pure: est keeps one call, on any record, of a run
\* whose pair statistics were completed
EstimateDistance ==
    /\ pairStatus = "done" /\ est.status = "none"
    /\ \E rec \in StoredRecords(pmap) \cup OtherRecords :
         LET r == estimateDistance(rec, jaccardToDist, params, 0, 0)
         IN  IF r.window = 0
             THEN \E undef1 \in UndefinedValues, undef2 \in UndefinedValues :
                    est' = estimateDistance(rec, jaccardToDist, params,
                                            undef1, undef2)
             ELSE est' = r
    /\ UNCHANGED <<inputs, sampleVars, indexVars, pairVars>>

Next ==
    \/ CalcDistSamples
    \/ BuildJaccardToDist
    \/ CalcContigPairBarcodeStats
    \/ EstimateDistance

Spec == Init /\ [][Next]_vars

(* Each builder run again and again on the same inputs *)

RerunCalcDistSamples ==
    /\ sampleRuns < 2 /\ pairRuns = 0
    /\ RunCalcDistSamples

RerunCalcContigPairBarcodeStats ==
    /\ sampleRuns = 2 /\ pairRuns < 2
    /\ RunCalcContigPairBarcodeStats

NextRerun ==
    \/ RerunCalcDistSamples
    \/ RerunCalcContigPairBarcodeStats

SpecRerun == Init /\ [][NextRerun]_vars

(* ------------------------------ the claims ---------------------------- *)

\* barcodes inside the multiplicity range
MultQualifying ==
    {b \in Barcodes : /\ indexMultMap[b] >= params.min_mult
                      /\ indexMultMap[b] <= params.max_mult}

\* multiplicity-qualifying barcodes with at least min_reads read pairs at an end
BarcodesAt(c, isHead) ==
    {b \in MultQualifying : /\ <<c, isHead>> \in DOMAIN imap[b]
                            /\ imap[b][<<c, isHead>>] >= params.min_reads}

LongEnough(c) == contigToLength[c] >= 2 * params.end_length

\* the same, for contigs of at least twice the end length
EligibleAt(c, isHead) == IF LongEnough(c) THEN BarcodesAt(c, isHead) ELSE {}

\* C1: after calcDistSamples on an empty map, every sample counts by set
\* semantics: head = |H|, tail = |T|, union = |H union T|, intersect =
\* |H intersect T|, whatever the visiting order was
C1_SetSemantics ==
    sampleRuns >= 1 =>
        \A c \in DOMAIN distSamples :
            LET H == BarcodesAt(c, TRUE)
                T == BarcodesAt(c, FALSE)
                s == distSamples[c]
            IN  /\ s.barcodesHead = Cardinality(H)
                /\ s.barcodesTail = Cardinality(T)
                /\ s.barcodesUnion = Cardinality(H \cup T)
                /\ s.barcodesIntersect = Cardinality(H \cap T)

\* a contig with a barcode at both ends and another at one end only
C1_Witness ==
    /\ sampleRuns >= 1
    /\ \E c \in DOMAIN distSamples :
          /\ BarcodesAt(c, TRUE) \cap BarcodesAt(c, FALSE) # {}
          /\ BarcodesAt(c, TRUE) \ BarcodesAt(c, FALSE) # {}
          /\ distSamples[c].barcodesUnion = 2
          /\ distSamples[c].barcodesIntersect = 1

\* C2: the fill of barcodes1/barcodes2 finds a side-table entry for both ends
\* of every variant of every stored pair: the lookup never throws
C2_LookupAlwaysSucceeds ==
    pairRuns >= 1 => pairStatus # "out_of_range"

\* C3: after buildJaccardToDist into an empty index every sample is in the
\* index: as many entries as samples, ties included
C3_EverySampleIndexed ==
    indexBuilt =>
        /\ Cardinality(DOMAIN jaccardToDist) = Cardinality(DOMAIN distSamples)
        /\ \A c \in DOMAIN distSamples :
              \E k \in DOMAIN jaccardToDist : jaccardToDist[k] = distSamples[c]

\* C4: with a non-empty index and union > 0, an empty window makes
\* estimateDistance return success = false
C4_EmptyWindowFails ==
    (est.status = "returned" /\ est.window = 0) => ~est.success

\* C5: estimateDistance returns success = false and the zero estimate, without
\* reaching an assertion, when the index is empty (whatever the record) and
\* when the record's union is 0; its arguments are left as they were
C5_FailsSoft ==
    (est.status # "none" /\ (DOMAIN est.index = {} \/ est.rec.barcodesUnion = 0))
        => /\ est.status = "returned"
           /\ ~est.success
           /\ est.result = [minDist |-> 0, maxDist |-> 0, jaccard |-> <<0, 1>>]
           /\ est.index = jaccardToDist
           /\ est.rec \in StoredRecords(pmap) \cup OtherRecords

\* a call with an empty index on a record of intersect > union > 0
C5_WitnessEmptyIndex ==
    /\ est.status = "returned"
    /\ DOMAIN est.index = {}
    /\ est.rec.barcodesIntersect > est.rec.barcodesUnion
    /\ est.rec.barcodesUnion > 0
    /\ ~est.success

\* C6: every stored orientation variant has barcodes1 > 0, barcodes2 > 0,
\* union = barcodes1 + barcodes2 - intersect and union >= intersect; no
\* assertion of the fill fails and the similarity of a stored variant is in
\* [0,1]
C6_StoredVariantInvariant ==
    pairRuns >= 1 =>
        /\ pairStatus # "assert"
        /\ \A rec \in StoredRecords(pmap) :
              /\ rec.barcodes1 > 0
              /\ rec.barcodes2 > 0
              /\ rec.barcodesUnion
                   = rec.barcodes1 + rec.barcodes2 - rec.barcodesIntersect
              /\ rec.barcodesUnion >= rec.barcodesIntersect
              /\ FracInUnit(Jaccard(rec.barcodesIntersect, rec.barcodesUnion))

\* C7: every sample of calcDistSamples has 0 <= intersect <= union and
\* union >= 1, so every key of the index is a fraction in [0,1]
C7_SampleBounds ==
    /\ sampleRuns >= 1 =>
          \A c \in DOMAIN distSamples :
              /\ 0 <= distSamples[c].barcodesIntersect
              /\ distSamples[c].barcodesIntersect <= distSamples[c].barcodesUnion
              /\ distSamples[c].barcodesUnion >= 1
    /\ indexBuilt => \A k \in DOMAIN jaccardToDist : FracInUnit(k)

\* a contig whose barcodes qualify at one end only, indexed under key 0; its
\* other end holds an observation below min_reads
C7_Witness ==
    /\ indexBuilt
    /\ \E c \in DOMAIN distSamples :
          /\ distSamples[c].barcodesIntersect = 0
          /\ distSamples[c].barcodesUnion > 0
          /\ BarcodesAt(c, TRUE) = {}
          /\ \E b \in MultQualifying : <<c, TRUE>> \in DOMAIN imap[b]
          /\ <<0, 1>> \in DOMAIN jaccardToDist

SampleCount(c, isHead) ==
    IF c \notin DOMAIN distSamples THEN 0
    ELSE IF isHead THEN distSamples[c].barcodesHead
    ELSE distSamples[c].barcodesTail

SideTableCount(ci) ==
    IF ci \in DOMAIN contigEndToBarcodeCount
    THEN contigEndToBarcodeCount[ci] ELSE 0

\* C8: both builders use the same eligibility: for every contig end the
\* sample's head/tail count equals the side-table count, and a contig shorter
\* than 2*end_length is in neither the sample map nor a pair key
C8_SameEligibility ==
    (sampleRuns >= 1 /\ pairRuns >= 1) =>
        /\ \A ci \in CI : SampleCount(ci[1], ci[2]) = SideTableCount(ci)
        /\ \A c \in Contigs :
              ~LongEnough(c) =>
                  /\ c \notin DOMAIN distSamples
                  /\ \A pair \in DOMAIN pmap : pair[1] # c /\ pair[2] # c

\* a short contig with a qualifying observation beside a counted long one
C8_Witness ==
    /\ sampleRuns >= 1 /\ pairRuns >= 1
    /\ \E c \in Contigs, h \in BOOLEAN :
          ~LongEnough(c) /\ BarcodesAt(c, h) # {}
    /\ \E ci \in CI : SideTableCount(ci) >= 1 /\ SampleCount(ci[1], ci[2]) >= 1

\* C9: two runs of a builder on the same inputs, each on an empty map and
\* with its own visiting order, leave identical maps: the same samples, and
\* the same pair map with the same ending
C9_Idempotent ==
    /\ sampleRuns >= 2 => distSamples = prevDistSamples
    /\ pairRuns >= 2 =>
          /\ pairStatus = prevPairs.status
          /\ pmap = prevPairs.pmap

\* C10: every stored key has id1 <= id2, and for A < B the intersect of each
\* orientation variant is the number of qualifying barcodes eligible at both
\* the corresponding ends
C10_CanonicalPairs ==
    pairRuns >= 1 =>
        /\ \A pair \in DOMAIN pmap : pair[1] <= pair[2]
        /\ \A a \in Contigs, b \in Contigs, h1 \in BOOLEAN, h2 \in BOOLEAN :
              a < b =>
                LET shared == EligibleAt(a, h1) \cap EligibleAt(b, h2)
                    i == IF h1 /\ h2 THEN HH ELSE IF h1 THEN HT
                         ELSE IF h2 THEN TH ELSE TT
                IN  IF <<a, b>> \in DOMAIN pmap
                    THEN pmap[<<a, b>>][i].barcodesIntersect
                           = Cardinality(shared)
                    ELSE shared = {}

\* a barcode shared by the head of contig 1 and the tail of contig 2
C10_Witness ==
    /\ pairRuns >= 1
    /\ <<1, 2>> \in DOMAIN pmap
    /\ pmap[<<1, 2>>][HT].barcodesIntersect = 1
    /\ pmap[<<1, 2>>][TH].barcodesIntersect = 0

====
